---- MODULE Spec2Model ----
(***************************************************************************)
(* A model of dro::SPSCQueue<int> (src/include/dro/spsc-queue.hpp): the    *)
(* ring buffer, its two cursors, the two cached cursors, and every public  *)
(* operation split at its accesses to shared memory.  The producer and the *)
(* consumer are two processes; each has a program counter and the locals   *)
(* of the method it is executing.                                          *)
(*                                                                         *)
(* Index arithmetic is on std::size_t.  Every index of the model is below  *)
(* capacity_ <= MaxCap + 2, so no operation can wrap at 2^64 and the       *)
(* values are kept as plain integers.                                      *)
(***************************************************************************)
EXTENDS Integers, Sequences, FiniteSets, TLC

\* ------------------------------------------------------------------ bounds
\* Largest requested capacity.
MaxCap == 3
\* Largest number of insert calls (of any variant) the producer starts.
MaxOps == 4
\* Element values are 1..MaxVal; 0 is the value-initialised int of resize().
MaxVal == 2
\* std::size_t is modelled SizeBits wide; the constructors' overflow guards
\* compare against its largest value.
SizeBits == 7

\* --------------------------------------------------------- program constants
cacheLineSize == 64
\* sizeof(int), the element type of the tests and the example.
sizeofT == 4
padding == ((cacheLineSize - 1) \div sizeofT) + 1
\* std::numeric_limits<std::size_t>::max()
MAX_SIZE_T == 2 ^ SizeBits - 1
SIZE_MAX == MAX_SIZE_T

VARIABLES
  \* the object
  capacity_, buffer_, readIndex_, readIndexCache_, writeIndex_, writeIndexCache_,
  \* the producer thread: method, position, locals, argument, result
  pOp, ppc, pIdx, pNext, pArg, pRet, pTmp,
  \* the consumer thread: method, position, locals, the caller's val, result
  cOp, cpc, cIdx, cVal, cRet, cTmp,
  \* 1: both roles are played by one thread (calls never overlap); 2: two threads
  nthreads,
  \* slots the producer wrote that no acquire load of the consumer has ordered yet
  unsync,
  \* history: values published by inserts, values delivered by removes,
  \* runs of consecutive force-inserts started (2: two or more)
  inserted, removed, forceRuns,
  \* history of single-threaded use: the last completed call, and the last
  \* completed call as the consumer's current call found it
  log, cPrev,
  \* the constructor call that made (or failed to make) the object: the class,
  \* the compile-time capacity N (0: none), whether a runtime capacity was
  \* passed and its value, the exception thrown, and the position of the call
  ctor,
  \* how many times the destructor of each inserted element has run (the
  \* elements of SPSC_Queue are told apart by their value)
  destroyed

objVars == <<capacity_, buffer_, readIndex_, readIndexCache_, writeIndex_, writeIndexCache_>>
pVars == <<pOp, ppc, pIdx, pNext, pArg, pRet, pTmp>>
cVars == <<cOp, cpc, cIdx, cVal, cRet, cTmp>>
histVars == <<inserted, removed, forceRuns, log, cPrev>>
lifeVars == <<ctor, destroyed>>
vars == <<objVars, pVars, cVars, nthreads, unsync, histVars, lifeVars>>

\* The values a single thread inserts: any.  With two threads the producer
\* inserts 1, 2, 3, ... so that every element is told apart from every other.
Values == 1..MaxVal
ArgValues == IF nthreads = 1 THEN Values ELSE {Len(inserted) + 1}
AllValues == 0..(IF nthreads = 1 THEN MaxVal ELSE MaxOps)

\* ------------------------------------------------------------ pure helpers
Min(a, b) == IF a <= b THEN a ELSE b

\* Mutant of NextIndex: wraps one position early, at capacity_ - 2.
NextIndex_early(i) == IF i >= capacity_ - 2 THEN 0 ELSE i + 1

\* Mutant of NextIndex: wraps one position late, at capacity_.
NextIndex_late(i) == IF i = capacity_ THEN 0 ELSE i + 1

\* (writeIndex == capacity_ - 1) ? 0 : writeIndex + 1
NextIndex(i) == IF i = capacity_ - 1 THEN 0 ELSE i + 1

\* Mutant of size_result: the wrapped case counts capacity() slots, not capacity_.
size_result_short(writeIndex, readIndex) ==
  IF writeIndex >= readIndex
    THEN writeIndex - readIndex
    ELSE (capacity_ - 1 - readIndex) + writeIndex

\* the arithmetic of size() on the two loaded cursors
size_result(writeIndex, readIndex) ==
  IF writeIndex >= readIndex
    THEN writeIndex - readIndex
    ELSE (capacity_ - readIndex) + writeIndex

\* Mutant of capacity: reports the slot count of the ring, hidden slot included.
capacity_slots == capacity_

capacity == capacity_ - 1

\* Mutant of read_value: reads the slot after the one asked for.
read_value_next(readIndex) ==
  buffer_[(IF readIndex = capacity_ - 1 THEN 0 ELSE readIndex + 1) + padding]

read_value(readIndex) == buffer_[readIndex + padding]

\* Mutant of write_value: indexes the buffer without the padding offset.
write_value_unpadded(writeIndex, val) == [buffer_ EXCEPT ![writeIndex] = val]

write_value(writeIndex, val) == [buffer_ EXCEPT ![writeIndex + padding] = val]

\* What a read of slot i can return.  A slot written by the other thread with
\* no release/acquire pair in between is a data race: any value.
ReadOutcomes(i) ==
  IF nthreads = 2 /\ i \in unsync THEN AllValues ELSE {read_value(i)}

\* The slots still unordered after the consumer's acquire load of writeIndex_:
\* only a write the producer has not published yet.  One thread alone is
\* ordered by its program order.
AfterAcquire == IF nthreads = 2 /\ ppc = "store" THEN {pIdx} ELSE {}

AfterWrite(i) == IF nthreads = 2 THEN unsync \cup {i} ELSE {}

\* The call history, kept for single-threaded use.  run: the number of
\* consecutive force-inserts the last completed insert, remove or peek ends (0:
\* it was no force-insert); full: that call was a force-insert and the queue
\* held capacity() elements when it published; acted: the consumer has made a
\* call; mixed: an insert was started after the consumer's first call; plain:
\* an insert other than a force-insert was started.
Done(op, full, run) ==
  IF nthreads = 1
    THEN [log EXCEPT !.full = full /\ op = "force_emplace", !.run = run]
    ELSE log
NoCall == [full |-> FALSE, run |-> 0, acted |-> FALSE, mixed |-> FALSE, plain |-> FALSE]

\* The history when an insert starts.
InsertCall(op) ==
  IF nthreads = 1
    THEN [log EXCEPT !.mixed = log.acted, !.plain = @ \/ op # "force_emplace"]
    ELSE log

\* The history when the consumer starts a remove or a peek.
RemoveCall == IF nthreads = 1 THEN [log EXCEPT !.acted = TRUE] ELSE log

\* One thread plays both roles: a call starts only when no other call runs.
MayStartP == nthreads = 2 \/ cpc = "idle"
MayStartC == nthreads = 2 \/ ppc = "idle"

\* ------------------------------------------------------------ construction
\* Mutant of Construct: the cached write index does not start at the write index.
Construct_stale(c) ==
  /\ capacity_ = c + 1
  /\ buffer_ = [i \in 0..(c + 1 + 2 * padding - 1) |-> 0]
  /\ readIndex_ = 0
  /\ readIndexCache_ = 0
  /\ writeIndex_ = 0
  /\ writeIndexCache_ = 1

\* SPSCQueue(capacity): capacity_ = capacity + 1, buffer_ of capacity_ + 2*padding
\* value-initialised elements, all four indices 0.
Construct(c) ==
  /\ capacity_ = c + 1
  /\ buffer_ = [i \in 0..(c + 1 + 2 * padding - 1) |-> 0]
  /\ readIndex_ = 0
  /\ readIndexCache_ = 0
  /\ writeIndex_ = 0
  /\ writeIndexCache_ = 0

Idle ==
  /\ pOp = "none" /\ ppc = "idle" /\ pIdx = 0 /\ pNext = 0 /\ pArg = 0
  /\ pRet = FALSE /\ pTmp = 0
  /\ cOp = "none" /\ cpc = "idle" /\ cIdx = 0 /\ cVal = 0 /\ cRet = FALSE /\ cTmp = 0
  /\ unsync = {}
  /\ inserted = <<>> /\ removed = <<>> /\ forceRuns = 0
  /\ log = NoCall /\ cPrev = NoCall
  /\ destroyed = [e \in 1..MaxOps |-> 0]

\* The record of a call SPSCQueue<int> queue(c) that returned.
Made(c) ==
  [class |-> "SPSCQueue", N |-> 0, given |-> TRUE, capacity |-> c,
   thrown |-> "none", pc |-> "done"]

Init ==
  /\ \E c \in 1..MaxCap : Construct(c) /\ ctor = Made(c)
  /\ Idle
  /\ nthreads = 2

InitSeq ==
  /\ \E c \in 1..MaxCap : Construct(c) /\ ctor = Made(c)
  /\ Idle
  /\ nthreads = 1

\* ------------------------------------------------------------ constructors
\* size_t arithmetic: modulo 2^SizeBits
Wrap(n) == n % (MAX_SIZE_T + 1)

\* The number of elements of buffer_.
BufferSize == Cardinality(DOMAIN buffer_)

\* No object: the constructor has not returned, or it threw.
NoObject ==
  /\ capacity_ = 0
  /\ buffer_ = [i \in {} |-> 0]
  /\ readIndex_ = 0
  /\ readIndexCache_ = 0
  /\ writeIndex_ = 0
  /\ writeIndexCache_ = 0

Throw(e) ==
  /\ ctor' = [ctor EXCEPT !.thrown = e, !.pc = "done"]
  /\ UNCHANGED objVars

\* The constructor returns: the object is as Construct(c) describes it.
Return(c) ==
  /\ capacity_' = c + 1
  /\ buffer_' = [i \in 0..(c + 1 + 2 * padding - 1) |-> 0]
  /\ readIndex_' = 0
  /\ readIndexCache_' = 0
  /\ writeIndex_' = 0
  /\ writeIndexCache_' = 0
  /\ ctor' = [ctor EXCEPT !.pc = "done"]

CtorFrame == UNCHANGED <<pVars, cVars, nthreads, unsync, histVars, destroyed>>

\* Mutant of SPSCQueue_ctor: a requested capacity of 0 is raised to 1, as the
\* earlier revision of the class does.
SPSCQueue_ctor_clamp ==
  /\ ctor.pc = "call" /\ ctor.class = "SPSCQueue"
  /\ IF ctor.capacity > MAX_SIZE_T - (2 * padding) - 1
       THEN Throw("overflow_error")
       ELSE Return(IF ctor.capacity < 1 THEN 1 ELSE ctor.capacity)
  /\ CtorFrame

\* SPSCQueue(capacity): throws std::logic_error if capacity < 1 and
\* std::overflow_error if capacity > MAX_SIZE_T - 2*padding - 1; otherwise
\* ++capacity_ and buffer_.resize(capacity_ + 2*padding).
SPSCQueue_ctor ==
  /\ ctor.pc = "call" /\ ctor.class = "SPSCQueue"
  /\ IF ctor.capacity < 1
       THEN Throw("logic_error")
       ELSE IF ctor.capacity > MAX_SIZE_T - (2 * padding) - 1
         THEN Throw("overflow_error")
         ELSE Return(ctor.capacity)
  /\ CtorFrame

\* The capacity_ the earlier revision SPSC_Queue(capacity) ends with: raised to
\* 1 if below, incremented (modulo 2^SizeBits), then compared with SIZE_MAX.
SPSC_Queue_capacity(c) ==
  LET atLeast1 == IF c < 1 THEN 1 ELSE c
      plus1 == Wrap(atLeast1 + 1)
  IN  IF plus1 > SIZE_MAX THEN SIZE_MAX ELSE plus1

\* SPSC_Queue(capacity) of src/src: never throws; buffer_.resize(capacity_),
\* no padding.
SPSC_Queue_ctor ==
  /\ ctor.pc = "call" /\ ctor.class = "SPSC_Queue"
  /\ capacity_' = SPSC_Queue_capacity(ctor.capacity)
  /\ buffer_' = [i \in 0..(SPSC_Queue_capacity(ctor.capacity) - 1) |-> 0]
  /\ UNCHANGED <<readIndex_, readIndexCache_, writeIndex_, writeIndexCache_>>
  /\ ctor' = [ctor EXCEPT !.pc = "done"]
  /\ CtorFrame

\* SPSC_Queue::capacity(): capacity_ - 1 on std::size_t
SPSC_Queue_capacity_result == Wrap(capacity_ - 1)

\* Mutant of SPSCQueue_N_ctor: a runtime capacity equal to N is accepted.
SPSCQueue_N_ctor_equal ==
  /\ ctor.pc = "call" /\ ctor.class = "SPSCQueue_N"
  /\ IF ctor.given /\ ctor.capacity # ctor.N
       THEN Throw("invalid_argument")
       ELSE Return(ctor.N)
  /\ CtorFrame

\* SPSCQueue<T, N>(capacity) with the inline array: passing a runtime capacity
\* beside the compile-time N throws std::invalid_argument; otherwise the queue
\* holds N elements.
SPSCQueue_N_ctor ==
  /\ ctor.pc = "call" /\ ctor.class = "SPSCQueue_N"
  /\ IF ctor.given
       THEN Throw("invalid_argument")
       ELSE Return(ctor.N)
  /\ CtorFrame

\* A constructor call about to run: either class of the repository with any
\* requested capacity a std::size_t holds, or the inline-array queue with or
\* without a runtime capacity.
InitCtor ==
  /\ NoObject
  /\ Idle
  /\ nthreads = 1
  /\ \/ \E cls \in {"SPSCQueue", "SPSC_Queue"}, c \in 0..MAX_SIZE_T :
          ctor = [class |-> cls, N |-> 0, given |-> TRUE, capacity |-> c,
                  thrown |-> "none", pc |-> "call"]
     \/ \E n \in 1..MaxCap, c \in 0..MaxCap :
          ctor = [class |-> "SPSCQueue_N", N |-> n, given |-> c > 0, capacity |-> c,
                  thrown |-> "none", pc |-> "call"]

NextCtor ==
  \/ SPSCQueue_ctor
  \/ SPSC_Queue_ctor
  \/ SPSCQueue_N_ctor

\* One constructor call.
SpecCtor == InitCtor /\ [][NextCtor]_vars

\* ------------------------------------------------------------ the producer
\* What a producer call leaves alone besides its own locals.
ProducerFrame ==
  UNCHANGED <<capacity_, readIndex_, writeIndexCache_, cVars, nthreads, removed, cPrev,
              lifeVars>>

\* Mutant of InsertEntry: goes on to write without the test against the cached
\* read index, as force_emplace does.
InsertEntry_unguarded(op, v) ==
  /\ ppc = "idle" /\ MayStartP
  /\ Len(inserted) < MaxOps
  /\ pOp' = op /\ pArg' = v
  /\ pIdx' = writeIndex_
  /\ pNext' = NextIndex(writeIndex_)
  /\ ppc' = "write"
  /\ log' = InsertCall(op)
  /\ UNCHANGED <<pRet, pTmp, buffer_, readIndexCache_, writeIndex_, unsync,
                 inserted, forceRuns>>
  /\ ProducerFrame

\* Entry of emplace / try_emplace: load writeIndex_, compute nextWriteIndex and
\* test it against the cached read index.
InsertEntry(op, v) ==
  /\ ppc = "idle" /\ MayStartP
  /\ Len(inserted) < MaxOps
  /\ pOp' = op /\ pArg' = v
  /\ pIdx' = writeIndex_
  /\ pNext' = NextIndex(writeIndex_)
  /\ ppc' = IF NextIndex(writeIndex_) = readIndexCache_ THEN "load" ELSE "write"
  /\ log' = InsertCall(op)
  /\ UNCHANGED <<pRet, pTmp, buffer_, readIndexCache_, writeIndex_, unsync,
                 inserted, forceRuns>>
  /\ ProducerFrame

\* write_value(writeIndex, args...)
ProducerWrite ==
  /\ ppc = "write"
  /\ buffer_' = write_value(pIdx, pArg)
  /\ unsync' = AfterWrite(pIdx)
  /\ ppc' = "store"
  /\ UNCHANGED <<pOp, pIdx, pNext, pArg, pRet, pTmp, readIndexCache_, writeIndex_,
                 inserted, forceRuns, log>>
  /\ ProducerFrame

\* The number of consecutive completed force-inserts, this call included.
RunAfter(op) == IF op = "force_emplace" THEN log.run + 1 ELSE 0

\* writeIndex_.store(nextWriteIndex, release), after which the call returns
\* (true, for try_emplace)
ProducerStore ==
  /\ ppc = "store"
  /\ writeIndex_' = pNext
  /\ ppc' = "ret" /\ pRet' = TRUE
  /\ inserted' = Append(inserted, pArg)
  /\ log' = Done(pOp, size_result(writeIndex_, readIndex_) = capacity, RunAfter(pOp))
  /\ UNCHANGED <<pOp, pIdx, pNext, pArg, pTmp, buffer_, readIndexCache_, unsync, forceRuns>>
  /\ ProducerFrame

\* return false of try_emplace
ProducerFail ==
  /\ ppc' = "ret" /\ pRet' = FALSE
  /\ log' = Done(pOp, size_result(writeIndex_, readIndex_) = capacity, 0)

\* The call is over: its locals are gone.
ProducerReturn ==
  /\ ppc = "ret"
  /\ pOp' = "none" /\ ppc' = "idle" /\ pIdx' = 0 /\ pNext' = 0 /\ pArg' = 0
  /\ pRet' = FALSE /\ pTmp' = 0
  /\ UNCHANGED <<objVars, cVars, nthreads, unsync, histVars, lifeVars>>

emplace(v) == InsertEntry("emplace", v)

\* Mutant of emplace_spin: spins on the cached read index without reloading it.
emplace_spin_cached ==
  /\ ppc = "load" /\ pOp = "emplace"
  /\ ppc' = IF pNext = readIndexCache_ THEN "load" ELSE "write"
  /\ UNCHANGED <<pOp, pIdx, pNext, pArg, pRet, pTmp, buffer_, writeIndex_, unsync,
                 inserted, forceRuns, log, readIndexCache_>>
  /\ ProducerFrame

\* Mutant of emplace_spin: reloads the read index once and goes on to write.
emplace_spin_once ==
  /\ ppc = "load" /\ pOp = "emplace"
  /\ readIndexCache_' = readIndex_
  /\ ppc' = "write"
  /\ UNCHANGED <<pOp, pIdx, pNext, pArg, pRet, pTmp, buffer_, writeIndex_, unsync,
                 inserted, forceRuns, log>>
  /\ ProducerFrame

\* Mutant of emplace_spin: caches the index after the one it loads.
emplace_spin_ahead ==
  /\ ppc = "load" /\ pOp = "emplace"
  /\ readIndexCache_' = NextIndex(readIndex_)
  /\ ppc' = IF pNext = NextIndex(readIndex_) THEN "load" ELSE "write"
  /\ UNCHANGED <<pOp, pIdx, pNext, pArg, pRet, pTmp, buffer_, writeIndex_, unsync,
                 inserted, forceRuns, log>>
  /\ ProducerFrame

\* one turn of: while (nextWriteIndex == readIndexCache_) readIndexCache_ = load
emplace_spin ==
  /\ ppc = "load" /\ pOp = "emplace"
  /\ readIndexCache_' = readIndex_
  /\ ppc' = IF pNext = readIndex_ THEN "load" ELSE "write"
  /\ UNCHANGED <<pOp, pIdx, pNext, pArg, pRet, pTmp, buffer_, writeIndex_, unsync,
                 inserted, forceRuns, log>>
  /\ ProducerFrame

emplace_write == pOp = "emplace" /\ ProducerWrite

emplace_store == pOp = "emplace" /\ ProducerStore

\* Mutant of force_emplace: reloads the cached read index on entry.
force_emplace_refresh(v) ==
  /\ ppc = "idle" /\ MayStartP
  /\ Len(inserted) < MaxOps
  /\ pOp' = "force_emplace" /\ pArg' = v
  /\ pIdx' = writeIndex_
  /\ pNext' = NextIndex(writeIndex_)
  /\ ppc' = "write"
  /\ readIndexCache_' = readIndex_
  /\ forceRuns' = IF nthreads = 1 /\ log.run > 0 THEN forceRuns ELSE Min(forceRuns + 1, 2)
  /\ log' = InsertCall("force_emplace")
  /\ UNCHANGED <<pRet, pTmp, buffer_, writeIndex_, unsync, inserted>>
  /\ ProducerFrame

force_emplace(v) ==
  /\ ppc = "idle" /\ MayStartP
  /\ Len(inserted) < MaxOps
  /\ pOp' = "force_emplace" /\ pArg' = v
  /\ pIdx' = writeIndex_
  /\ pNext' = NextIndex(writeIndex_)
  /\ ppc' = "write"
  /\ forceRuns' = IF nthreads = 1 /\ log.run > 0 THEN forceRuns ELSE Min(forceRuns + 1, 2)
  /\ log' = InsertCall("force_emplace")
  /\ UNCHANGED <<pRet, pTmp, buffer_, readIndexCache_, writeIndex_, unsync,
                 inserted>>
  /\ ProducerFrame

force_emplace_write == pOp = "force_emplace" /\ ProducerWrite

force_emplace_store == pOp = "force_emplace" /\ ProducerStore

try_emplace(v) == InsertEntry("try_emplace", v)

\* Mutant of try_emplace_refresh: fails on the cached read index without
\* reloading it.
try_emplace_norefresh ==
  /\ ppc = "load" /\ pOp = "try_emplace"
  /\ ProducerFail
  /\ UNCHANGED <<pOp, pIdx, pNext, pArg, pTmp, buffer_, writeIndex_, unsync,
                 inserted, forceRuns, readIndexCache_>>
  /\ ProducerFrame

\* Mutant of try_emplace_refresh: reloads the read index and goes on to write
\* whatever it finds.
try_emplace_refresh_accept ==
  /\ ppc = "load" /\ pOp = "try_emplace"
  /\ readIndexCache_' = readIndex_
  /\ ppc' = "write"
  /\ UNCHANGED <<pRet, log>>
  /\ UNCHANGED <<pOp, pIdx, pNext, pArg, pTmp, buffer_, writeIndex_, unsync,
                 inserted, forceRuns>>
  /\ ProducerFrame

\* Mutant of try_emplace_refresh: returns false one slot before the queue is
\* full as well.
try_emplace_refresh_strict ==
  /\ ppc = "load" /\ pOp = "try_emplace"
  /\ readIndexCache_' = readIndex_
  /\ IF pNext = readIndex_ \/ NextIndex(pNext) = readIndex_
       THEN ProducerFail
       ELSE /\ ppc' = "write"
            /\ UNCHANGED <<pRet, log>>
  /\ UNCHANGED <<pOp, pIdx, pNext, pArg, pTmp, buffer_, writeIndex_, unsync,
                 inserted, forceRuns>>
  /\ ProducerFrame

\* readIndexCache_ = readIndex_.load(acquire); if still equal return false
try_emplace_refresh ==
  /\ ppc = "load" /\ pOp = "try_emplace"
  /\ readIndexCache_' = readIndex_
  /\ IF pNext = readIndex_
       THEN ProducerFail
       ELSE /\ ppc' = "write"
            /\ UNCHANGED <<pRet, log>>
  /\ UNCHANGED <<pOp, pIdx, pNext, pArg, pTmp, buffer_, writeIndex_, unsync,
                 inserted, forceRuns>>
  /\ ProducerFrame

try_emplace_write == pOp = "try_emplace" /\ ProducerWrite

try_emplace_store == pOp = "try_emplace" /\ ProducerStore

push(val) == emplace(val)

force_push(val) == force_emplace(val)

try_push(val) == try_emplace(val)

\* ------------------------------------------------------------ the consumer
ConsumerFrame ==
  UNCHANGED <<capacity_, buffer_, writeIndex_, readIndexCache_, pVars, nthreads,
              inserted, forceRuns, lifeVars>>

\* Entry of try_pop / pop / front: load readIndex_ and test it against the
\* cached write index.
RemoveEntry(op) ==
  /\ cpc = "idle" /\ MayStartC
  /\ cOp' = op
  /\ cIdx' = readIndex_
  /\ cpc' = IF readIndex_ = writeIndexCache_ THEN "load" ELSE "read"
  /\ cPrev' = log
  /\ log' = RemoveCall
  /\ UNCHANGED <<cVal, cRet, cTmp, readIndex_, writeIndexCache_, unsync, removed>>
  /\ ConsumerFrame

\* return false / return nullptr
ConsumerFail ==
  /\ cpc' = "ret" /\ cRet' = FALSE
  /\ log' = Done(cOp, FALSE, 0)

\* Mutant of ConsumerRefresh: goes on to read without testing the index loaded.
ConsumerRefresh_unchecked ==
  /\ cpc = "load"
  /\ writeIndexCache_' = writeIndex_
  /\ unsync' = AfterAcquire
  /\ cpc' = "read"
  /\ UNCHANGED <<cRet, log>>
  /\ UNCHANGED <<cOp, cIdx, cVal, cTmp, readIndex_, removed, cPrev>>
  /\ ConsumerFrame

\* Mutant of ConsumerRefresh: caches the index after the one it loads.
ConsumerRefresh_ahead ==
  /\ cpc = "load"
  /\ writeIndexCache_' = NextIndex(writeIndex_)
  /\ unsync' = AfterAcquire
  /\ IF cIdx = NextIndex(writeIndex_)
       THEN ConsumerFail
       ELSE /\ cpc' = "read"
            /\ UNCHANGED <<cRet, log>>
  /\ UNCHANGED <<cOp, cIdx, cVal, cTmp, readIndex_, removed, cPrev>>
  /\ ConsumerFrame

\* writeIndexCache_ = writeIndex_.load(acquire); if still equal return false
ConsumerRefresh ==
  /\ cpc = "load"
  /\ writeIndexCache_' = writeIndex_
  /\ unsync' = AfterAcquire
  /\ IF cIdx = writeIndex_
       THEN ConsumerFail
       ELSE /\ cpc' = "read"
            /\ UNCHANGED <<cRet, log>>
  /\ UNCHANGED <<cOp, cIdx, cVal, cTmp, readIndex_, removed, cPrev>>
  /\ ConsumerFrame

\* val = read_value(readIndex)
ConsumerRead ==
  /\ cpc = "read"
  /\ \E x \in ReadOutcomes(cIdx) : cVal' = x
  /\ cpc' = "store"
  /\ UNCHANGED <<cOp, cIdx, cRet, cTmp, readIndex_, writeIndexCache_, unsync,
                 removed, log, cPrev>>
  /\ ConsumerFrame

\* Mutant of ConsumerStore: publishes the index two slots on.
ConsumerStore_skip ==
  /\ cpc = "store"
  /\ readIndex_' = NextIndex(NextIndex(cIdx))
  /\ cpc' = "ret" /\ cRet' = TRUE
  /\ removed' = Append(removed, cVal)
  /\ log' = Done(cOp, FALSE, 0)
  /\ UNCHANGED <<cOp, cIdx, cVal, cTmp, writeIndexCache_, unsync, cPrev>>
  /\ ConsumerFrame

\* readIndex_.store(nextReadIndex, release), after which the call returns
\* (true, for try_pop)
ConsumerStore ==
  /\ cpc = "store"
  /\ readIndex_' = NextIndex(cIdx)
  /\ cpc' = "ret" /\ cRet' = TRUE
  /\ removed' = Append(removed, cVal)
  /\ log' = Done(cOp, FALSE, 0)
  /\ UNCHANGED <<cOp, cIdx, cVal, cTmp, writeIndexCache_, unsync, cPrev>>
  /\ ConsumerFrame

\* The call is over: its locals are gone; val is the caller's and stays.
ConsumerReturn ==
  /\ cpc = "ret"
  /\ cOp' = "none" /\ cpc' = "idle" /\ cIdx' = 0 /\ cRet' = FALSE /\ cTmp' = 0
  /\ cPrev' = NoCall
  /\ UNCHANGED <<objVars, pVars, cVal, nthreads, unsync, inserted, removed, forceRuns, log,
                 lifeVars>>

try_pop == RemoveEntry("try_pop")

\* Mutant of try_pop_refresh: reloads the write index until it has moved, as
\* the blocking remove does.
try_pop_refresh_wait ==
  /\ cpc = "load" /\ cOp = "try_pop"
  /\ writeIndexCache_' = writeIndex_
  /\ unsync' = AfterAcquire
  /\ cpc' = IF cIdx = writeIndex_ THEN "load" ELSE "read"
  /\ UNCHANGED <<cOp, cIdx, cVal, cRet, cTmp, readIndex_, removed, log, cPrev>>
  /\ ConsumerFrame

try_pop_refresh == cOp = "try_pop" /\ ConsumerRefresh

try_pop_read == cOp = "try_pop" /\ ConsumerRead

try_pop_store == cOp = "try_pop" /\ ConsumerStore

\* Blocking remove: spins until non-empty, then extracts as try_pop does.
pop == RemoveEntry("pop")

pop_spin ==
  /\ cpc = "load" /\ cOp = "pop"
  /\ writeIndexCache_' = writeIndex_
  /\ unsync' = AfterAcquire
  /\ cpc' = IF cIdx = writeIndex_ THEN "load" ELSE "read"
  /\ UNCHANGED <<cOp, cIdx, cVal, cRet, cTmp, readIndex_, removed, log, cPrev>>
  /\ ConsumerFrame

pop_read == cOp = "pop" /\ ConsumerRead

pop_store == cOp = "pop" /\ ConsumerStore

\* Peek: the check of try_pop, then the address of the slot at readIndex (cRet:
\* the pointer is not null; cIdx: the slot it points to).
front == RemoveEntry("front")

front_refresh == cOp = "front" /\ ConsumerRefresh

front_return ==
  /\ cpc = "read" /\ cOp = "front"
  /\ cpc' = "ret" /\ cRet' = TRUE
  /\ log' = Done(cOp, FALSE, 0)
  /\ UNCHANGED <<cOp, cIdx, cVal, cTmp, readIndex_, writeIndexCache_, unsync,
                 removed, cPrev>>
  /\ ConsumerFrame

\* ------------------------------------------------------------ the queries
\* size() and empty() are const and may be called by either thread.  Each makes
\* two acquire loads; pTmp / cTmp holds the first one until the second is made,
\* and the result of size() afterwards.  The operands of == in empty() are
\* evaluated in either order.
ProducerQueryFrame ==
  /\ UNCHANGED <<objVars, cVars, nthreads, unsync, histVars, lifeVars>>
  /\ UNCHANGED <<pIdx, pNext, pArg>>

ConsumerQueryFrame ==
  /\ UNCHANGED <<objVars, pVars, nthreads, histVars, lifeVars>>
  /\ UNCHANGED <<cIdx, cVal>>

size_producer ==
  /\ ppc = "idle" /\ MayStartP
  /\ pOp' = "size" /\ ppc' = "q_r"
  /\ pTmp' = writeIndex_
  /\ UNCHANGED pRet
  /\ ProducerQueryFrame

size_producer_return ==
  /\ ppc = "q_r" /\ pOp = "size"
  /\ pTmp' = size_result(pTmp, readIndex_)
  /\ ppc' = "ret"
  /\ UNCHANGED <<pOp, pRet>>
  /\ ProducerQueryFrame

empty_producer ==
  /\ ppc = "idle" /\ MayStartP
  /\ pOp' = "empty"
  /\ \/ ppc' = "q_r" /\ pTmp' = writeIndex_
     \/ ppc' = "q_w" /\ pTmp' = readIndex_
  /\ UNCHANGED pRet
  /\ ProducerQueryFrame

empty_producer_return ==
  /\ pOp = "empty"
  /\ \/ ppc = "q_r" /\ pRet' = (pTmp = readIndex_)
     \/ ppc = "q_w" /\ pRet' = (writeIndex_ = pTmp)
  /\ ppc' = "ret" /\ pTmp' = 0
  /\ UNCHANGED pOp
  /\ ProducerQueryFrame

\* Mutant of size_consumer: takes the write index from the consumer's cache.
size_consumer_cached ==
  /\ cpc = "idle" /\ MayStartC
  /\ cOp' = "size" /\ cpc' = "q_r"
  /\ cTmp' = writeIndexCache_
  /\ UNCHANGED <<cRet, unsync>>
  /\ ConsumerQueryFrame

\* Mutant of size_consumer: keeps the write index it loads in the consumer's
\* cache.
size_consumer_caching ==
  /\ cpc = "idle" /\ MayStartC
  /\ cOp' = "size" /\ cpc' = "q_r"
  /\ cTmp' = writeIndex_
  /\ writeIndexCache_' = writeIndex_
  /\ unsync' = AfterAcquire
  /\ UNCHANGED <<cRet, cIdx, cVal>>
  /\ UNCHANGED <<capacity_, buffer_, readIndex_, readIndexCache_, writeIndex_>>
  /\ UNCHANGED <<pVars, nthreads, histVars, lifeVars>>

size_consumer ==
  /\ cpc = "idle" /\ MayStartC
  /\ cOp' = "size" /\ cpc' = "q_r"
  /\ cTmp' = writeIndex_
  /\ unsync' = AfterAcquire
  /\ UNCHANGED cRet
  /\ ConsumerQueryFrame

size_consumer_return ==
  /\ cpc = "q_r" /\ cOp = "size"
  /\ cTmp' = size_result(cTmp, readIndex_)
  /\ cpc' = "ret"
  /\ UNCHANGED <<cOp, cRet, unsync>>
  /\ ConsumerQueryFrame

empty_consumer ==
  /\ cpc = "idle" /\ MayStartC
  /\ cOp' = "empty"
  /\ \/ cpc' = "q_r" /\ cTmp' = writeIndex_ /\ unsync' = AfterAcquire
     \/ cpc' = "q_w" /\ cTmp' = readIndex_ /\ UNCHANGED unsync
  /\ UNCHANGED cRet
  /\ ConsumerQueryFrame

empty_consumer_return ==
  /\ cOp = "empty"
  /\ \/ cpc = "q_r" /\ cRet' = (cTmp = readIndex_) /\ UNCHANGED unsync
     \/ cpc = "q_w" /\ cRet' = (writeIndex_ = cTmp) /\ unsync' = AfterAcquire
  /\ cpc' = "ret" /\ cTmp' = 0
  /\ UNCHANGED cOp
  /\ ConsumerQueryFrame

\* ------------------------------------------------------------ specifications
ProducerCall ==
  \E v \in ArgValues :
    \/ emplace(v)
    \/ force_emplace(v)
    \/ try_emplace(v)
    \/ push(v)
    \/ force_push(v)
    \/ try_push(v)

ProducerStep ==
  \/ emplace_spin
  \/ emplace_write
  \/ emplace_store
  \/ force_emplace_write
  \/ force_emplace_store
  \/ try_emplace_refresh
  \/ try_emplace_write
  \/ try_emplace_store
  \/ ProducerReturn

ConsumerCall ==
  \/ try_pop
  \/ pop
  \/ front

ConsumerStep ==
  \/ try_pop_refresh
  \/ try_pop_read
  \/ try_pop_store
  \/ pop_spin
  \/ pop_read
  \/ pop_store
  \/ front_refresh
  \/ front_return
  \/ ConsumerReturn

Query ==
  \/ size_producer
  \/ size_producer_return
  \/ empty_producer
  \/ empty_producer_return
  \/ size_consumer
  \/ size_consumer_return
  \/ empty_consumer
  \/ empty_consumer_return

Next ==
  \/ ProducerCall
  \/ ProducerStep
  \/ ConsumerCall
  \/ ConsumerStep
  \/ Query

\* Two threads, every operation.
Spec == Init /\ [][Next]_vars

\* One thread, every operation, one call at a time.
SpecSeq == InitSeq /\ [][Next]_vars

\* The benchmark and the example: the producer thread inserts 0, 1, 2, ... with
\* emplace while the consumer thread removes MaxOps values, each with pop or
\* with while (!queue.try_pop(val)) {}.
BenchProducer ==
  \/ emplace(Len(inserted))
  \/ emplace_spin
  \/ emplace_write
  \/ emplace_store
  \/ ProducerReturn

BenchConsumer ==
  \/ Len(removed) < MaxOps /\ pop
  \/ pop_spin
  \/ pop_read
  \/ pop_store
  \/ Len(removed) < MaxOps /\ try_pop
  \/ try_pop_refresh
  \/ try_pop_read
  \/ try_pop_store
  \/ ConsumerReturn

NextBench == BenchProducer \/ BenchConsumer

SpecBench == Init /\ [][NextBench]_vars

\* The same two threads, each scheduled again and again: a thread that can take
\* a step that changes something eventually takes one.
SpecBenchFair ==
  /\ Init /\ [][NextBench]_vars
  /\ WF_vars(BenchProducer)
  /\ WF_vars(BenchConsumer)

\* ------------------------------------- the earlier revision, dro::SPSC_Queue
\* src/src/spsc-queue.hpp: the same ring and cursors over a vector of Slot with
\* no padding; try_pop() takes no output argument and destroys the element in
\* place; the destructor drains the queue.  One thread makes the calls, so each
\* call is one step.  ctor.pc is the life of the object: "done" (constructed),
\* "drain" (in the loop of the destructor), "slots" (the vector is being
\* destroyed), "gone".
Alive == ctor.class = "SPSC_Queue" /\ ctor.pc = "done"

OldFrame ==
  UNCHANGED <<capacity_, nthreads, unsync, forceRuns, log, cPrev,
              ppc, pIdx, pNext, pArg, pTmp, cpc, cTmp>>

\* readIdxCache_ after: if (nextWriteIdx == readIdxCache_) readIdxCache_ = load
ReadIdxCacheAfter(nextWriteIdx) ==
  IF nextWriteIdx = readIndexCache_ THEN readIndex_ ELSE readIndexCache_

\* writeIdxCache_ after: if (readIdx == writeIdxCache_) writeIdxCache_ = load
WriteIdxCacheAfter(readIdx) ==
  IF readIdx = writeIndexCache_ THEN writeIndex_ ELSE writeIndexCache_

\* buffer_[writeIdx].data_ = std::move(T(args...)); writeIdx_.store(nextWriteIdx)
SPSC_Queue_store(op, v) ==
  /\ readIndexCache_' = ReadIdxCacheAfter(NextIndex(writeIndex_))
  /\ buffer_' = [buffer_ EXCEPT ![writeIndex_] = v]
  /\ writeIndex_' = NextIndex(writeIndex_)
  /\ inserted' = Append(inserted, v)
  /\ pOp' = op /\ pRet' = TRUE
  /\ UNCHANGED <<readIndex_, writeIndexCache_, removed, cVars, lifeVars>>
  /\ OldFrame

\* SPSC_Queue::emplace.  On a full queue the loop never ends when no other
\* thread removes: the call is made only when it returns.
SPSC_Queue_emplace(v) ==
  /\ Alive /\ Len(inserted) < MaxOps
  /\ NextIndex(writeIndex_) # ReadIdxCacheAfter(NextIndex(writeIndex_))
  /\ SPSC_Queue_store("emplace", v)

SPSC_Queue_try_emplace(v) ==
  /\ Alive /\ Len(inserted) < MaxOps
  /\ IF NextIndex(writeIndex_) = ReadIdxCacheAfter(NextIndex(writeIndex_))
       THEN /\ readIndexCache_' = readIndex_
            /\ pOp' = "try_emplace" /\ pRet' = FALSE
            /\ UNCHANGED <<buffer_, writeIndex_, inserted, readIndex_, writeIndexCache_,
                           removed, cVars, lifeVars>>
            /\ OldFrame
       ELSE SPSC_Queue_store("try_emplace", v)

\* Mutant of SPSC_Queue_front: the address of the slot after readIdx.
SPSC_Queue_front_next ==
  /\ Alive
  /\ writeIndexCache_' = WriteIdxCacheAfter(readIndex_)
  /\ cOp' = "front" /\ cIdx' = NextIndex(readIndex_)
  /\ cRet' = (readIndex_ # WriteIdxCacheAfter(readIndex_))
  /\ cVal' = IF readIndex_ # WriteIdxCacheAfter(readIndex_)
              THEN buffer_[NextIndex(readIndex_)] ELSE cVal
  /\ UNCHANGED <<buffer_, readIndex_, writeIndex_, readIndexCache_, inserted, removed,
                 pOp, pRet, lifeVars>>
  /\ OldFrame

\* SPSC_Queue::front: nullptr (cRet false) or &buffer_[readIdx].data_ (cIdx the
\* slot, cVal the element the pointer gives).
SPSC_Queue_front ==
  /\ Alive
  /\ writeIndexCache_' = WriteIdxCacheAfter(readIndex_)
  /\ cOp' = "front" /\ cIdx' = readIndex_
  /\ cRet' = (readIndex_ # WriteIdxCacheAfter(readIndex_))
  /\ cVal' = IF readIndex_ # WriteIdxCacheAfter(readIndex_)
              THEN buffer_[readIndex_] ELSE cVal
  /\ UNCHANGED <<buffer_, readIndex_, writeIndex_, readIndexCache_, inserted, removed,
                 pOp, pRet, lifeVars>>
  /\ OldFrame

\* Slot::destroy(): data_.~K() on the element the slot holds.
Destroy(slot) ==
  [e \in DOMAIN destroyed |->
     IF buffer_[slot] = e THEN destroyed[e] + 1 ELSE destroyed[e]]

\* The body of SPSC_Queue::try_pop(): false if empty; else destroy the slot at
\* readIdx and store nextReadIdx.
TryPopBody ==
  /\ writeIndexCache_' = WriteIdxCacheAfter(readIndex_)
  /\ cOp' = "try_pop" /\ cIdx' = readIndex_
  /\ IF readIndex_ = WriteIdxCacheAfter(readIndex_)
       THEN /\ cRet' = FALSE
            /\ UNCHANGED <<readIndex_, removed, destroyed>>
       ELSE /\ cRet' = TRUE
            /\ destroyed' = Destroy(readIndex_)
            /\ readIndex_' = NextIndex(readIndex_)
            /\ removed' = Append(removed, buffer_[readIndex_])
  /\ UNCHANGED <<buffer_, writeIndex_, readIndexCache_, inserted, cVal, pOp, pRet>>
  /\ OldFrame

SPSC_Queue_try_pop == Alive /\ TryPopBody /\ UNCHANGED ctor

\* ~SPSC_Queue() is entered.
SPSC_Queue_dtor ==
  /\ Alive
  /\ ctor' = [ctor EXCEPT !.pc = "drain"]
  /\ UNCHANGED <<objVars, pVars, cVars, nthreads, unsync, histVars, destroyed>>

\* Mutant of SPSC_Queue_dtor_drain: if (try_pop()) {} in place of the loop.
SPSC_Queue_dtor_drain_once ==
  /\ ctor.class = "SPSC_Queue" /\ ctor.pc = "drain"
  /\ TryPopBody
  /\ ctor' = [ctor EXCEPT !.pc = "slots"]

\* One turn of: while (try_pop()) {}
SPSC_Queue_dtor_drain ==
  /\ ctor.class = "SPSC_Queue" /\ ctor.pc = "drain"
  /\ TryPopBody
  /\ ctor' = [ctor EXCEPT !.pc = IF readIndex_ = WriteIdxCacheAfter(readIndex_)
                                   THEN "slots" ELSE "drain"]

\* The destructor calls a slot makes on the element it holds: ~Slot() calls
\* destroy(), and then the member data_ is destroyed as every member is.
SlotDtorCalls == 2

\* The members are destroyed: ~vector<Slot> runs ~Slot() on every slot.
SPSC_Queue_dtor_buffer ==
  /\ ctor.class = "SPSC_Queue" /\ ctor.pc = "slots"
  /\ destroyed' = [e \in DOMAIN destroyed |->
        destroyed[e] + SlotDtorCalls * Cardinality({i \in DOMAIN buffer_ : buffer_[i] = e})]
  /\ buffer_' = [i \in {} |-> 0]
  /\ ctor' = [ctor EXCEPT !.pc = "gone"]
  /\ UNCHANGED <<capacity_, readIndex_, readIndexCache_, writeIndex_, writeIndexCache_,
                 pVars, cVars, nthreads, unsync, histVars>>

\* SPSC_Queue<T> queue(c) has returned; c = 0 is raised to 1.
InitOld ==
  /\ \E c \in 0..MaxCap :
       /\ capacity_ = SPSC_Queue_capacity(c)
       /\ buffer_ = [i \in 0..(SPSC_Queue_capacity(c) - 1) |-> 0]
       /\ ctor = [class |-> "SPSC_Queue", N |-> 0, given |-> TRUE, capacity |-> c,
                  thrown |-> "none", pc |-> "done"]
  /\ readIndex_ = 0 /\ readIndexCache_ = 0
  /\ writeIndex_ = 0 /\ writeIndexCache_ = 0
  /\ Idle
  /\ nthreads = 1

\* The elements inserted are 1, 2, 3, ...: each is told apart from the others.
NextOld ==
  \/ SPSC_Queue_emplace(Len(inserted) + 1)
  \/ SPSC_Queue_try_emplace(Len(inserted) + 1)
  \/ SPSC_Queue_front
  \/ SPSC_Queue_try_pop
  \/ SPSC_Queue_dtor
  \/ SPSC_Queue_dtor_drain
  \/ SPSC_Queue_dtor_buffer

\* The life of one SPSC_Queue used by one thread.
SpecOld == InitOld /\ [][NextOld]_vars

\* ------------------------------------------------------------ properties
IsPrefix(s, t) == Len(s) <= Len(t) /\ \A i \in 1..Len(s) : s[i] = t[i]

\* the last n entries of s
LastN(s, n) == SubSeq(s, Len(s) - n + 1, Len(s))

\* <<0, 1, ..., n-1>>
Iota(n) == [i \in 1..n |-> i - 1]

\* what size() and empty() return when nothing runs beside them
Size == size_result(writeIndex_, readIndex_)
Empty == writeIndex_ = readIndex_

\* C1: with the producer thread inserting 0, 1, 2, ... by blocking inserts and
\* the consumer thread removing by blocking removes, in every interleaving and
\* for every capacity the values removed so far are exactly 0, 1, ..., k-1 in
\* that order: nothing is lost, duplicated or reordered.
C1_InOrder ==
  /\ removed = Iota(Len(removed))
  /\ IsPrefix(removed, inserted)
  /\ ((cpc = "ret" /\ cRet) => cVal = Len(removed) - 1)

C1_Witness == Len(removed) = MaxOps /\ capacity = 1 /\ cpc = "ret"

\* C2: in single-threaded use without force-insert, every remove yields the
\* oldest value inserted and not yet removed: the values removed are a prefix
\* of the values inserted, also after the cursors have wrapped.
C2_Fifo ==
  (nthreads = 1 /\ forceRuns = 0) =>
    /\ IsPrefix(removed, inserted)
    /\ (cpc = "ret" /\ cOp \in {"try_pop", "pop"} /\ cRet
          => cVal = inserted[Len(removed)])

C2_Witness ==
  /\ nthreads = 1 /\ forceRuns = 0
  /\ cpc = "ret" /\ cOp = "try_pop" /\ cRet
  /\ Len(removed) > capacity
  /\ \E i \in 1..Len(removed) : removed[i] # removed[1]

\* C3: whatever the producer and the consumer have done, force-inserts
\* included, a call of size() returns a value in 0..capacity().
C3_SizeInRange ==
  /\ (ppc = "ret" /\ pOp = "size" => pTmp \in 0..capacity)
  /\ (cpc = "ret" /\ cOp = "size" => cTmp \in 0..capacity)
  /\ Size \in 0..capacity

C3_Witness ==
  /\ cpc = "ret" /\ cOp = "size" /\ cTmp = capacity
  /\ forceRuns > 0 /\ Len(removed) > 0
  /\ ppc # "idle"

\* C4: a non-blocking insert on a queue that holds capacity() elements changes
\* neither writeIndex_, readIndex_ nor any slot, and returns false.
C4_FullTryInsertFails ==
  [][ (nthreads = 1 /\ pOp' = "try_emplace" /\ ppc' # ppc /\ Size = capacity)
        => /\ UNCHANGED <<writeIndex_, readIndex_, buffer_>>
           /\ (ppc' = "ret" => ~pRet') ]_vars

\* C5: in single-threaded use without force-insert, a non-blocking insert
\* returns true exactly when size() < capacity() as it is called, whatever the
\* cached read index holds, and a successful one adds one to size().
C5_TryInsertExact ==
  [][ (nthreads = 1 /\ forceRuns = 0 /\ pOp = "try_emplace"
         /\ ppc # "ret" /\ ppc' = "ret")
        => /\ pRet' <=> (Size < capacity)
           /\ pRet' => Size' = Size + 1
           /\ ~pRet' => Size' = Size ]_vars

C5_Witness ==
  /\ nthreads = 1 /\ forceRuns = 0
  /\ ppc = "ret" /\ pOp = "try_emplace" /\ pRet
  /\ Size = capacity /\ Len(removed) > 0

\* C6: a queue on which no insert has been published is empty: empty() is
\* true, size() is 0, and try_pop and front report no element.
C6_FreshIsEmpty ==
  inserted = <<>> =>
    /\ Empty /\ Size = 0
    /\ (cpc = "ret" /\ cOp \in {"try_pop", "front"} => ~cRet)
    /\ (cpc = "ret" /\ cOp = "empty" => cRet)
    /\ (cpc = "ret" /\ cOp = "size" => cTmp = 0)
    /\ (ppc = "ret" /\ pOp = "empty" => pRet)
    /\ (ppc = "ret" /\ pOp = "size" => pTmp = 0)

C6_Witness ==
  /\ inserted = <<>> /\ capacity = MaxCap
  /\ cpc = "ret" /\ cOp = "front" /\ ~cRet
  /\ ppc = "ret" /\ pOp = "size"

\* C7: without force-insert, size() is the number of completed inserts minus
\* the number of completed removes, and empty() holds exactly when that is 0,
\* however often the cursors have wrapped.
C7_SizeAccounting ==
  forceRuns = 0 =>
    /\ Size = Len(inserted) - Len(removed)
    /\ Empty <=> (Len(inserted) = Len(removed))

C7_Witness ==
  /\ forceRuns = 0 /\ Len(inserted) = MaxOps
  /\ writeIndex_ < readIndex_ /\ Size = capacity
  /\ ppc = "idle" /\ cpc = "store"

\* C8: the non-blocking remove that follows a force-insert into a full queue
\* returns true and delivers an inserted value.
C8_PopAfterForceOnFull ==
  (nthreads = 1 /\ cpc = "ret" /\ cOp = "try_pop" /\ cPrev.run > 0 /\ cPrev.full)
    => (cRet /\ cVal \in Values)

\* C9: after a producer that only force-inserts has inserted more than
\* capacity() values with no consumer call in between, the non-blocking removes
\* up to the first that fails have delivered the capacity() most recently
\* inserted values, in insertion order.
C9_FreshestKept ==
  (/\ nthreads = 1 /\ ~log.plain /\ ~log.mixed
   /\ Len(inserted) > capacity
   /\ cpc = "ret" /\ cOp = "try_pop" /\ ~cRet)
    => removed = LastN(inserted, capacity)

\* C10: after capacity() consecutive force-inserts of one value v, made with no
\* consumer call in between on a queue no force-insert was used on before, the
\* next non-blocking remove returns true and delivers v.
C10_PopAfterForceRun ==
  (/\ nthreads = 1 /\ cpc = "ret" /\ cOp = "try_pop"
   /\ cPrev.run = capacity /\ forceRuns = 1
   /\ \A i \in 1..capacity : LastN(inserted, capacity)[i] = inserted[Len(inserted)])
    => (cRet /\ cVal = inserted[Len(inserted)])

\* C11: with N = MaxOps blocking inserts by the producer thread and N removes
\* by the consumer thread, no force-insert, and both threads scheduled fairly,
\* for every capacity (N exceeds each) both threads finish and the queue ends,
\* and stays, empty.
C11_BothFinish ==
  <>[](/\ Len(inserted) = MaxOps /\ Len(removed) = MaxOps
       /\ ppc = "idle" /\ cpc = "idle"
       /\ Empty /\ Size = 0)

C11_Witness ==
  /\ capacity = 1
  /\ Len(inserted) = MaxOps /\ Len(removed) = MaxOps
  /\ ppc = "idle" /\ cpc = "idle" /\ Empty
  /\ cVal = MaxOps - 1

\* The position of a call in its method: each step of a non-blocking call moves
\* it forward.
Rank(pc) ==
  CASE pc = "idle" -> 0
    [] pc = "load" -> 1
    [] pc \in {"write", "read"} -> 2
    [] pc = "store" -> 3
    [] pc = "ret" -> 4
    [] OTHER -> 5

NonBlockingProducerStep ==
  \/ try_emplace_refresh
  \/ try_emplace_write
  \/ try_emplace_store

NonBlockingConsumerStep ==
  \/ try_pop_refresh
  \/ try_pop_read
  \/ try_pop_store
  \/ front_refresh
  \/ front_return

\* C12: a call of try_push / try_emplace, try_pop or front that has not
\* returned can always take a step that changes something, whatever state the
\* other thread stopped in, and every step moves the call forward through at
\* most four positions (load, write or read, store, return): it returns after
\* at most four steps of its own and never waits for the other thread.
C12_NonBlocking ==
  /\ [](/\ (pOp = "try_emplace" /\ ppc # "ret")
             => ENABLED <<NonBlockingProducerStep>>_vars
        /\ (cOp \in {"try_pop", "front"} /\ cpc # "ret")
             => ENABLED <<NonBlockingConsumerStep>>_vars)
  /\ [][/\ (pOp' = "try_emplace" /\ pVars' # pVars) => Rank(ppc') > Rank(ppc)
        /\ (cOp' \in {"try_pop", "front"} /\ cVars' # cVars)
             => Rank(cpc') > Rank(cpc)]_vars

C12_Witness ==
  /\ cpc = "ret" /\ cOp = "try_pop" /\ ~cRet
  /\ ppc = "store" /\ pOp = "emplace"
  /\ Len(removed) > 0

\* The whole-queue state Full: advancing writeIndex_ by one would equal readIndex_.
Full == NextIndex(writeIndex_) = readIndex_

\* C13: a blocking insert that finds the queue full goes to its spin and stays
\* there for as long as the queue is full, which it is until the consumer
\* takes a step; a blocking remove likewise on an empty queue; and a blocking
\* call that returns never reports a failure.
C13_BlockingWaits ==
  [][/\ (pOp' = "emplace" /\ ppc \in {"idle", "load"} /\ Full) => ppc' = "load"
     /\ (cOp' = "pop" /\ cpc \in {"idle", "load"} /\ Empty) => cpc' = "load"
     /\ (pOp' = "emplace" /\ ppc' = "ret") => pRet'
     /\ (cOp' = "pop" /\ cpc' = "ret") => cRet']_vars

\* C14: in every reachable state, force-inserts included, writeIndex_ and
\* readIndex_ are in 0..capacity(), and every step that changes one of them
\* advances it by exactly one modulo capacity() + 1.
C14_IndexRange ==
  /\ [](writeIndex_ \in 0..capacity /\ readIndex_ \in 0..capacity)
  /\ [][/\ writeIndex_' # writeIndex_
             => writeIndex_' = (writeIndex_ + 1) % (capacity + 1)
        /\ readIndex_' # readIndex_
             => readIndex_' = (readIndex_ + 1) % (capacity + 1)]_vars

C14_Witness ==
  /\ capacity = MaxCap
  /\ writeIndex_ = 0 /\ readIndex_ = capacity
  /\ Len(inserted) = MaxOps /\ forceRuns > 0
  /\ ppc = "ret" /\ pOp = "force_emplace"

\* C15 as stated: no blocking or non-blocking insert brings the queue to Full;
\* only a force-insert does.
C15_FullOnlyByForce ==
  [][(pOp \in {"emplace", "try_emplace"} /\ writeIndex_' # writeIndex_)
       => ~Full']_vars

\* C15 amended: on a queue no force-insert is used on, a blocking or
\* non-blocking insert brings the queue to Full when it is the insert of the
\* capacity()-th element, and none is published from Full: writeIndex_ never
\* advances onto readIndex_.
C15_InsertStopsAtFull ==
  [][(forceRuns = 0 /\ pOp \in {"emplace", "try_emplace"}
        /\ writeIndex_' # writeIndex_)
       => /\ ~Full
          /\ writeIndex_' # readIndex_'
          /\ (Size = capacity - 1 => Full')]_vars

C15_Witness ==
  /\ forceRuns = 0 /\ Full
  /\ ppc = "ret" /\ pOp = "try_emplace" /\ pRet
  /\ capacity = MaxCap /\ Len(removed) > 0

\* C16: SPSCQueue(0) throws std::logic_error and leaves no object; SPSCQueue(c)
\* with c >= 1 and c + 1 + 2*padding representable returns a queue of capacity
\* c, empty, with c + 1 + 2*padding slots allocated.
C16_ZeroCapacityThrows ==
  (ctor.class = "SPSCQueue" /\ ctor.pc = "done") =>
    IF ctor.capacity = 0
      THEN ctor.thrown = "logic_error" /\ NoObject
      ELSE (ctor.capacity + 1 + 2 * padding <= MAX_SIZE_T) =>
             /\ ctor.thrown = "none"
             /\ capacity_ = ctor.capacity + 1
             /\ BufferSize = ctor.capacity + 1 + 2 * padding
             /\ Empty /\ Size = 0

C16_Witness ==
  /\ ctor.class = "SPSCQueue" /\ ctor.pc = "done"
  /\ ctor.capacity = 0 /\ ctor.thrown = "logic_error"

\* C17: constructing the inline-array queue SPSCQueue<T, N> with a runtime
\* capacity beside N throws std::invalid_argument and leaves no object, also
\* when the runtime capacity equals N.
C17_BothCapacitiesThrow ==
  (ctor.class = "SPSCQueue_N" /\ ctor.pc = "done" /\ ctor.given) =>
    (ctor.thrown = "invalid_argument" /\ NoObject)

C17_Witness ==
  /\ ctor.class = "SPSCQueue_N" /\ ctor.pc = "done"
  /\ ctor.given /\ ctor.capacity = ctor.N
  /\ ctor.thrown = "invalid_argument"

\* C18: capacity() of a queue constructed with requested capacity c is c, in
\* every state any sequence of operations of the two threads reaches.
C18_CapacityIsRequested ==
  (ctor.pc = "done" /\ ctor.thrown = "none") => capacity = ctor.capacity

C18_Witness ==
  /\ capacity = MaxCap /\ ctor.capacity = MaxCap
  /\ Len(inserted) = MaxOps /\ Len(removed) > 0 /\ forceRuns > 0
  /\ writeIndex_ < readIndex_

\* C19: a constructor call whose capacity + 1 + 2*padding (capacity + 1 for
\* the class without padding) exceeds the largest std::size_t does not throw,
\* allocates the largest representable number of slots, and capacity()
\* reports the capacity that allocation gives.
C19_OverflowClamps ==
  LET pad == IF ctor.class = "SPSCQueue" THEN 2 * padding ELSE 0
      cap == IF ctor.class = "SPSCQueue" THEN capacity ELSE SPSC_Queue_capacity_result
  IN  (/\ ctor.class \in {"SPSCQueue", "SPSC_Queue"} /\ ctor.pc = "done"
       /\ ctor.capacity + 1 + pad > MAX_SIZE_T)
        => /\ ctor.thrown = "none"
           /\ BufferSize = MAX_SIZE_T
           /\ cap = BufferSize - 1 - pad

\* The number of elements the queue holds: inserts published minus removes
\* published.
Held == Len(inserted) - Len(removed)

\* C20: without force-insert, while the other thread keeps inserting or
\* removing, size() returns the number of elements held at an instant of the
\* call.  Called by the producer: the number held at its second load.  Called
\* by the consumer: what its two loads will give is the number held at its
\* first load, stays the same at every step until the second load, and is what
\* the call returns.
C20_SizeSnapshot ==
  [][forceRuns' = 0 =>
       /\ (pOp = "size" /\ ppc = "q_r" /\ ppc' = "ret") => pTmp' = Held
       /\ (cpc = "idle" /\ cOp' = "size") => size_result(cTmp', readIndex_) = Held
       /\ (cOp = "size" /\ cpc = "q_r" /\ cpc' = "q_r")
            => size_result(cTmp', readIndex_') = size_result(cTmp, readIndex_)
       /\ (cOp = "size" /\ cpc = "q_r" /\ cpc' = "ret")
            => cTmp' = size_result(cTmp, readIndex_)]_vars

C20_Witness ==
  /\ forceRuns = 0
  /\ cpc = "ret" /\ cOp = "size" /\ cTmp # Held
  /\ ppc = "ret" /\ pOp = "emplace"
  /\ writeIndex_ < readIndex_

\* C21: every element inserted into an SPSC_Queue has its destructor run
\* exactly once by the time the queue is gone, and never more than once,
\* whether it was removed, was still stored at destruction, or its slot was
\* reused.
C21_DestroyedOnce ==
  ctor.class = "SPSC_Queue" =>
    /\ \A e \in DOMAIN destroyed : destroyed[e] <= 1
    /\ ctor.pc = "gone" => \A i \in 1..Len(inserted) : destroyed[inserted[i]] = 1

\* A step that is a call of front(): the consumer's last call is front and
\* nothing a producer call, a remove or the destructor writes has changed.
FrontStep ==
  /\ Alive /\ cOp' = "front"
  /\ UNCHANGED <<pVars, readIndexCache_, inserted, removed, ctor>>

\* C22: front() on a non-empty queue returns the slot at readIndex_, which
\* holds the oldest element not yet removed, and changes neither cursor nor
\* any slot; a peek after a peek returns the same slot and element; the next
\* remove takes the element the peek returned; on an empty queue front()
\* returns nullptr.
C22_PeekKeeps ==
  [][/\ FrontStep
          => /\ UNCHANGED <<readIndex_, writeIndex_, buffer_>>
             /\ cRet' <=> (readIndex_ # writeIndex_)
             /\ cRet' => /\ cIdx' = readIndex_
                         /\ cVal' = buffer_[readIndex_]
                         /\ cVal' = inserted[Len(removed) + 1]
             /\ (cOp = "front" /\ cRet) => (cRet' /\ cIdx' = cIdx /\ cVal' = cVal)
     /\ (Alive /\ cOp = "front" /\ cRet /\ removed' # removed)
          => removed' = Append(removed, cVal)]_vars

C22_Witness ==
  /\ Alive /\ cOp = "front" /\ cRet
  /\ writeIndex_ < readIndex_ /\ Len(removed) > 0
  /\ cVal = inserted[Len(removed) + 1]
  /\ Len(inserted) > Len(removed) + 1

Writing == pOp \in {"emplace", "force_emplace", "try_emplace"} /\ ppc \in {"write", "store"}
Reading == cOp \in {"try_pop", "pop", "front"} /\ cpc \in {"read", "store"}

\* C24: as long as force-insert has not been used, the producer is never
\* writing the slot the consumer is reading and no read is unordered with a
\* write of its slot; writeIndex_ is published only after the element is in
\* its slot, and readIndex_ only after the consumer has read its element.
C24_NoSharedSlot ==
  /\ [](forceRuns = 0 =>
          /\ ~(Writing /\ Reading /\ pIdx = cIdx)
          /\ (Reading /\ cpc = "read") => cIdx \notin unsync)
  /\ [][forceRuns = 0 =>
          /\ writeIndex_' # writeIndex_
               => /\ ppc = "store" /\ read_value(pIdx) = pArg
                  /\ pIdx = writeIndex_ /\ UNCHANGED buffer_
          /\ readIndex_' # readIndex_
               => /\ cpc = "store" /\ cIdx = readIndex_
                  /\ cVal = read_value(cIdx) /\ UNCHANGED cVal]_vars

C24_Witness ==
  /\ forceRuns = 0 /\ nthreads = 2
  /\ Writing /\ ppc = "store" /\ Reading /\ cpc = "read" /\ cOp = "try_pop"
  /\ pIdx = NextIndex(cIdx)

\* C25: a blocking or non-blocking insert stores its element only when the
\* slot is free: at the step that writes the slot, advancing writeIndex_ by one
\* does not reach the readIndex_ of that instant.
C25_WritesOnlyWhenFree ==
  [][(pOp \in {"emplace", "try_emplace"} /\ ppc = "write" /\ ppc' = "store")
       => NextIndex(writeIndex_) # readIndex_]_vars

\* C26: force-insert can be called in any state and none of its steps waits;
\* it writes its argument into the slot at the writeIndex_ it found, then
\* advances writeIndex_ by exactly one modulo capacity() + 1; no step of it
\* changes readIndex_, readIndexCache_ or writeIndexCache_.
C26_ForceFrame ==
  /\ [](/\ (ppc = "idle" /\ Len(inserted) < MaxOps) => ENABLED <<force_emplace(1)>>_vars
        /\ (pOp = "force_emplace" /\ ppc \in {"write", "store"})
             => ENABLED <<force_emplace_write \/ force_emplace_store>>_vars)
  /\ [][(pOp' = "force_emplace" /\ pVars' # pVars) =>
          /\ UNCHANGED <<readIndex_, readIndexCache_, writeIndexCache_, capacity_>>
          /\ \/ /\ ppc = "idle" /\ ppc' = "write"
                /\ pIdx' = writeIndex_
                /\ UNCHANGED <<buffer_, writeIndex_, inserted>>
             \/ /\ ppc = "write" /\ ppc' = "store"
                /\ pIdx = writeIndex_
                /\ buffer_' = [buffer_ EXCEPT ![writeIndex_ + padding] = pArg]
                /\ UNCHANGED <<writeIndex_, inserted>>
             \/ /\ ppc = "store" /\ ppc' = "ret"
                /\ writeIndex_' = (writeIndex_ + 1) % (capacity + 1)
                /\ inserted' = Append(inserted, pArg)
                /\ UNCHANGED buffer_]_vars

C26_Witness ==
  /\ pOp = "force_emplace" /\ ppc = "ret"
  /\ writeIndex_ = readIndex_ /\ Held = capacity + 1
  /\ readIndexCache_ # readIndex_

\* The producer has written, and not yet published, the slot the consumer has
\* chosen and not yet read.
Race == Writing /\ ppc = "store" /\ Reading /\ cpc = "read" /\ pIdx = cIdx

\* The producer has written a slot whose element was inserted capacity_ inserts
\* ago while fewer removals than that insert's number have been made.
Overwrote == Writing /\ ppc = "store" /\ Held >= capacity_

\* C27: with force-insert and a concurrent consumer the queue reaches a state
\* in which the producer writes the slot the consumer is reading, and a state
\* in which an element that was never removed is overwritten; neither is
\* reached before force-insert is used.
C27_ForceRaces ==
  /\ Race => forceRuns > 0
  /\ Overwrote => forceRuns > 0
  /\ (Reading /\ cpc = "read" /\ cIdx \in unsync) => forceRuns > 0

C27_Witness ==
  /\ nthreads = 2 /\ pOp = "force_emplace"
  /\ Race /\ cOp = "try_pop" /\ cIdx \in unsync
  /\ Overwrote /\ Len(removed) = 0

\* C28: readIndex_ and writeIndexCache_ change only in steps of the consumer's
\* remove and peek calls, which change nothing of the producer's; writeIndex_,
\* readIndexCache_ and the slots change only in steps of the producer's insert
\* calls, which change nothing of the consumer's; no step of size() or empty()
\* changes any field of the queue, and capacity_ never changes.
C28_Ownership ==
  [][/\ (readIndex_' # readIndex_ \/ writeIndexCache_' # writeIndexCache_)
          => /\ cOp \in {"try_pop", "pop", "front"}
             /\ UNCHANGED <<writeIndex_, readIndexCache_, buffer_, pVars>>
     /\ (writeIndex_' # writeIndex_ \/ readIndexCache_' # readIndexCache_
           \/ buffer_' # buffer_)
          => /\ pOp' \in {"emplace", "force_emplace", "try_emplace"}
             /\ UNCHANGED <<readIndex_, writeIndexCache_, cVars>>
     /\ (pVars' # pVars /\ (pOp \in {"size", "empty"} \/ pOp' \in {"size", "empty"}))
          => UNCHANGED objVars
     /\ (cVars' # cVars /\ (cOp \in {"size", "empty"} \/ cOp' \in {"size", "empty"}))
          => UNCHANGED objVars
     /\ UNCHANGED capacity_]_vars

C28_Witness ==
  /\ cOp = "size" /\ cpc = "ret" /\ cTmp > 0
  /\ pOp = "empty" /\ ppc = "ret" /\ ~pRet
  /\ writeIndexCache_ # writeIndex_ /\ readIndexCache_ # readIndex_

\* C29: on a queue on which force-insert has not been used, try_push /
\* try_emplace returns false only at its acquire load of readIndex_, at which
\* the queue holds exactly capacity() elements, and then changes neither the
\* slots nor writeIndex_; when it returns true it has appended exactly one
\* element, its argument, in the slot at the tail; the sequence of inserted
\* elements grows in no other step of the call.
C29_TryInsertResult ==
  [][(forceRuns = 0 /\ pOp = "try_emplace") =>
       /\ (ppc # "ret" /\ ppc' = "ret" /\ ~pRet')
            => /\ ppc = "load"
               /\ Held = capacity /\ Size = capacity
               /\ UNCHANGED <<buffer_, writeIndex_, inserted>>
       /\ (ppc # "ret" /\ ppc' = "ret" /\ pRet')
            => /\ inserted' = Append(inserted, pArg)
               /\ read_value(writeIndex_) = pArg
               /\ writeIndex_' = NextIndex(writeIndex_)
               /\ Held < capacity
       /\ inserted' # inserted => (ppc = "store" /\ ppc' = "ret" /\ pRet')]_vars

C29_Witness ==
  /\ forceRuns = 0 /\ nthreads = 2
  /\ pOp = "try_emplace" /\ ppc = "ret" /\ ~pRet
  /\ Held < capacity /\ capacity > 1

\* C30: on a queue on which force-insert has not been used, try_pop returns
\* false only at its acquire load of writeIndex_, at which the queue holds no
\* element, and leaves readIndex_ and the caller's output as they were; when
\* it returns true the output is the element in the slot at readIndex_, the
\* oldest one not yet removed, and readIndex_ advances by exactly one modulo
\* capacity() + 1; the output is written in no other step than the read of
\* a call that goes on to return true.
C30_TryRemoveResult ==
  [][(forceRuns = 0 /\ cOp = "try_pop") =>
       /\ (cpc # "ret" /\ cpc' = "ret" /\ ~cRet')
            => /\ cpc = "load"
               /\ Held = 0 /\ Size = 0
               /\ UNCHANGED <<readIndex_, cVal, removed>>
       /\ (cpc # "ret" /\ cpc' = "ret" /\ cRet')
            => /\ cVal = read_value(readIndex_)
               /\ cVal = inserted[Len(removed) + 1]
               /\ removed' = Append(removed, cVal)
               /\ readIndex_' = (readIndex_ + 1) % (capacity + 1)
               /\ UNCHANGED cVal
       /\ cVal' # cVal => (cpc = "read" /\ cpc' = "store")
       /\ readIndex_' # readIndex_ => (cpc = "store" /\ cRet')]_vars

C30_Witness ==
  /\ forceRuns = 0 /\ nthreads = 2
  /\ cOp = "try_pop" /\ cpc = "ret" /\ ~cRet
  /\ Held > 0 /\ cVal # 0 /\ Len(removed) > 0

\* The free slots the producer's test counts with read index r:
\* (r - writeIndex_ - 1) mod (capacity() + 1).
FreeSlots(r) == (r + capacity_ - writeIndex_ - 1) % capacity_

\* The elements the consumer's test counts with write index w:
\* (w - readIndex_) mod (capacity() + 1).
StoredSlots(w) == (w + capacity_ - readIndex_) % capacity_

\* C31: as long as force-insert has not been used, readIndexCache_ only ever
\* takes the value readIndex_ has at that step, and the free space counted
\* from it is at most the free space counted from readIndex_, which is the
\* number of slots really free; an insert that writes has found at least one.
C31_ReadCacheBehind ==
  /\ [](forceRuns = 0 =>
          /\ FreeSlots(readIndexCache_) <= FreeSlots(readIndex_)
          /\ FreeSlots(readIndex_) = capacity - Held
          /\ (Writing /\ ppc = "write") => FreeSlots(readIndexCache_) >= 1)
  /\ [][(forceRuns = 0 /\ readIndexCache_' # readIndexCache_)
          => readIndexCache_' = readIndex_]_vars

C31_Witness ==
  /\ forceRuns = 0 /\ nthreads = 2
  /\ pOp = "try_emplace" /\ ppc = "load"
  /\ FreeSlots(readIndexCache_) = 0 /\ FreeSlots(readIndex_) = capacity
  /\ capacity > 1 /\ readIndex_ > 0

\* C32: as long as force-insert has not been used, writeIndexCache_ only ever
\* takes the value writeIndex_ has at that step, and the number of elements
\* counted from it is at most the number counted from writeIndex_, which is
\* the number really stored; the slot a remove or a peek reads is one the
\* producer has published.
C32_WriteCacheBehind ==
  /\ [](forceRuns = 0 =>
          /\ StoredSlots(writeIndexCache_) <= StoredSlots(writeIndex_)
          /\ StoredSlots(writeIndex_) = Held
          /\ (Reading /\ cpc = "read")
               => /\ StoredSlots(writeIndexCache_) >= 1
                  /\ cIdx = readIndex_ /\ cIdx # writeIndex_
                  /\ read_value(cIdx) = inserted[Len(removed) + 1])
  /\ [][(forceRuns = 0 /\ writeIndexCache_' # writeIndexCache_)
          => writeIndexCache_' = writeIndex_]_vars

C32_Witness ==
  /\ forceRuns = 0 /\ nthreads = 2
  /\ cOp = "front" /\ cpc = "read"
  /\ StoredSlots(writeIndexCache_) = 1 /\ StoredSlots(writeIndex_) = capacity
  /\ capacity > 1 /\ writeIndex_ < readIndex_

\* The buffer positions of the padding slots in front of and behind the ring.
GuardSlots == {i \in DOMAIN buffer_ : i < padding \/ i > padding + capacity}

\* C33: the buffer has capacity() + 1 + 2*padding slots; the position every
\* insert writes and every remove reads is in padding .. padding + capacity();
\* a step that changes the buffer changes that one position only; the padding
\* slots at both ends keep the value they were constructed with.
C33_InsideBuffer ==
  /\ [](/\ DOMAIN buffer_ = 0..(capacity + 2 * padding)
        /\ Cardinality(GuardSlots) = 2 * padding
        /\ Writing => (pIdx + padding) \in padding..(padding + capacity)
        /\ Reading => (cIdx + padding) \in padding..(padding + capacity)
        /\ \A i \in GuardSlots : buffer_[i] = 0)
  /\ [][buffer_' # buffer_ =>
          /\ Writing /\ ppc = "write"
          /\ \A i \in DOMAIN buffer_ : i # pIdx + padding => buffer_'[i] = buffer_[i]
          /\ DOMAIN buffer_' = DOMAIN buffer_]_vars

C33_Witness ==
  /\ Writing /\ ppc = "store" /\ pIdx = capacity
  /\ buffer_[padding + capacity] = pArg /\ pArg # 0
  /\ capacity = MaxCap
  /\ Reading /\ cpc = "store" /\ cIdx # pIdx

\* The slots a constructor call asks for beyond the requested capacity: the
\* hidden slot and, in SPSCQueue, the padding at both ends.
ExtraSlots == IF ctor.class = "SPSCQueue" THEN 1 + 2 * padding ELSE 1

\* The capacity a constructor call works with: SPSC_Queue raises 0 to 1.
Requested ==
  IF ctor.class = "SPSC_Queue" /\ ctor.capacity < 1 THEN 1 ELSE ctor.capacity

\* C34: a constructor call that returns an object has allocated exactly
\* requested capacity + 1 + 2*padding slots (no padding in SPSC_Queue), a sum
\* that fits std::size_t; a call for which the sum exceeds the largest
\* std::size_t throws and leaves no object.
C34_NoWraparound ==
  (ctor.class \in {"SPSCQueue", "SPSC_Queue"} /\ ctor.pc = "done") =>
    /\ ctor.thrown = "none"
         => /\ BufferSize = Requested + ExtraSlots
            /\ Requested + ExtraSlots <= MAX_SIZE_T
    /\ Requested + ExtraSlots > MAX_SIZE_T
         => (ctor.thrown # "none" /\ NoObject)

====
